---- MODULE Spec2Model ----
(***************************************************************************)
(* Model of the proctored-interview backend (src/server/main.py and        *)
(* src/server/generatequestion.py).                                        *)
(*                                                                         *)
(* The program keeps five token-keyed Python dicts and two directories of  *)
(* JSON files.  A dict is modelled as a function whose DOMAIN is the set   *)
(* of keys present, so "token in d" is "t \in DOMAIN d".                   *)
(*                                                                         *)
(* Every HTTP handler is one atomic action (Flask handlers running one     *)
(* after another).  A call to the external model ("Gateway") is an input   *)
(* of the action: it either returns a reply or raises, and a handler that  *)
(* does not catch the exception answers 500 with whatever it had already   *)
(* written to the shared dicts.                                            *)
(*                                                                         *)
(* Texts are abstracted to a few representative strings; request bodies    *)
(* are taken to carry the documented fields (candidate_name present).      *)
(***************************************************************************)
EXTENDS Integers, Sequences, FiniteSets

VARIABLES
    uploads,             \* files uploads/test_<token>.json : token -> config
    test_data_storage,   \* main.py test_data_storage       : token -> config
    issued,              \* tokens already drawn by uuid4() in create_test
    states,              \* session_data['states']          : token -> state
    violations,          \* session_data['violations']      : token -> list
    interview_sessions,  \* generatequestion.interview_sessions
    interview_logs,      \* files interview_logs/<name>/interview_<token>.json
    resp,                \* the HTTP response of the last handler that ran
    inflight             \* per worker thread: the submit-text request it serves

storeVars   == <<uploads, test_data_storage, issued>>
trackerVars == <<states, violations>>
engineVars  == <<interview_sessions, interview_logs>>
vars        == <<uploads, test_data_storage, issued, states, violations,
                 interview_sessions, interview_logs, resp, inflight>>

----------------------------------------------------------------------------
(* Bounds of the model *)

MaxQuestions == 2       \* numQuestions of a create-test request is 0..MaxQuestions
MaxAnswers == 4         \* submit-text is not explored past this many stored answers
MaxViolations == 11     \* record-violation is not explored past this many entries

(* Program constants *)

ViolationLimit == 10    \* main.py: if count >= 10
LastStage == 3          \* main.py: stage < 3 / stage in [1, 2, 3]

Tokens == {"t1", "t2"}
NumQuestionsInputs == 0..MaxQuestions
AnswerInputs == {"", "ans"}          \* request text after .strip(); "" is empty
StageInputs == 0..(LastStage + 1)    \* 'stage' of an update-stage / validate request
StatusInputs == {"complete", "incomplete"}
ReasonInputs == {"r1", "r2"}
ViolationInputs == {"tab_switch"}    \* 'type' of a record-violation request
\* What one chat-completion call does: it raises ("fail"), or returns a text
\* that carries the "Question <n>:" marker ("labelled"), is plain prose
\* ("plain"), or is a JSON document ("json").
GatewayOutcomes == {"labelled", "plain", "json", "fail"}

\* worker threads of the server, each serving one request at a time
Threads == {"w1", "w2"}

----------------------------------------------------------------------------
(* Python dict operations *)

\* one object shared by all keys: the write shows under every token
Put_all(d, k, v) == [x \in (DOMAIN d) \cup {k} |-> v]

Put(d, k, v) == [x \in (DOMAIN d) \cup {k} |-> IF x = k THEN v ELSE d[x]]
\* the entry is not removed
Del_keep(d, k) == d

Del(d, k) == [x \in (DOMAIN d) \ {k} |-> d[x]]
EmptyDict == [x \in {} |-> 0]

(* HTTP responses: one record shape for all handlers, unused fields at their defaults *)

\* a worker thread with no submit-text request in hand
Idle == [pc |-> "idle", token |-> "", answer |-> "", current_q_num |-> 0]

NoResp ==
    [op |-> "none", token |-> "none", code |-> 0, error |-> "",
     is_complete |-> FALSE, question_number |-> 0, questions_remaining |-> 0,
     count |-> 0, allowed |-> FALSE, redirect |-> "", redirect_stage |-> 0,
     email_sent |-> FALSE, total_questions |-> 0, state |-> ""]

Reply(op, t, code) == [NoResp EXCEPT !.op = op, !.token = t, !.code = code]
ErrorReply(op, t, code, err) == [Reply(op, t, code) EXCEPT !.error = err]

----------------------------------------------------------------------------
(* Token store *)

NewConfig(t, n) == [token |-> t, num_questions |-> n, status |-> "pending"]

\* load_test_config: whether it finds a config, the config, and the cache afterwards
ConfigKnown(t) == t \in DOMAIN test_data_storage \/ t \in DOMAIN uploads

LoadedConfig(t) ==
    IF t \in DOMAIN test_data_storage THEN test_data_storage[t] ELSE uploads[t]

CacheAfterLoad(t) ==
    IF t \in DOMAIN test_data_storage THEN test_data_storage
    ELSE IF t \in DOMAIN uploads THEN Put(test_data_storage, t, uploads[t])
    ELSE test_data_storage

(* Session state tracker *)

FreshState ==
    [current_stage |-> 1,
     stages |-> [s \in 1..LastStage |-> "incomplete"],
     terminated |-> FALSE,
     completed |-> FALSE,
     termination_reason |-> <<>>]   \* <<>> : the key is absent; <<reason>> once set

\* the entry is written on every call, not only when the token is missing
StatesAfterGet_recreate(t) == Put(states, t, FreshState)

\* get_or_create_session_state: session_data['states'] after the call
StatesAfterGet(t) ==
    IF t \in DOMAIN states THEN states ELSE Put(states, t, FreshState)

\* stage 3 is advanced like the others instead of completing the test
UpdatedState_overrun(st, stage, status) ==
    IF stage \in 1..LastStage
    THEN LET st1 == [st EXCEPT !.stages[stage] = status] IN
         IF status = "complete"
         THEN [st1 EXCEPT !.current_stage = stage + 1]
         ELSE st1
    ELSE st

\* update_stage: the state dict after the body of the handler
UpdatedState(st, stage, status) ==
    IF stage \in 1..LastStage
    THEN LET st1 == [st EXCEPT !.stages[stage] = status] IN
         IF status = "complete"
         THEN IF stage < LastStage
              THEN [st1 EXCEPT !.current_stage = stage + 1]
              ELSE [st1 EXCEPT !.completed = TRUE]
         ELSE st1
    ELSE st

\* only the "ahead" comparison is made: a stage already passed is allowed again
ValidateDecision_noBehind(st, stage) ==
    IF st.terminated THEN [allowed |-> FALSE, redirect |-> "terminated", redirect_stage |-> 0]
    ELSE IF st.completed THEN [allowed |-> FALSE, redirect |-> "feedback", redirect_stage |-> 0]
    ELSE IF stage > st.current_stage
    THEN [allowed |-> FALSE, redirect |-> "stage", redirect_stage |-> st.current_stage]
    ELSE [allowed |-> TRUE, redirect |-> "", redirect_stage |-> 0]

\* validate_stage_access: the answer for a known token
ValidateDecision(st, stage) ==
    IF st.terminated THEN [allowed |-> FALSE, redirect |-> "terminated", redirect_stage |-> 0]
    ELSE IF st.completed THEN [allowed |-> FALSE, redirect |-> "feedback", redirect_stage |-> 0]
    ELSE IF stage < st.current_stage
    THEN [allowed |-> FALSE, redirect |-> "stage", redirect_stage |-> st.current_stage]
    ELSE IF stage > st.current_stage
    THEN [allowed |-> FALSE, redirect |-> "stage", redirect_stage |-> st.current_stage]
    ELSE [allowed |-> TRUE, redirect |-> "", redirect_stage |-> 0]

\* off by one: termination only past the limit
MaxReached_late(count) == count > ViolationLimit

\* record_violation: if count >= 10
MaxReached(count) == count >= ViolationLimit

\* the terminated flag is not consulted
StartRefused_never(st) == FALSE

\* start_interview: if state['terminated']: 403
StartRefused(st) == st.terminated

\* the first reason is kept on a second terminate
TerminatedState_firstReason(st, reason) ==
    [st EXCEPT !.terminated = TRUE,
               !.termination_reason = IF @ = <<>> THEN <<reason>> ELSE @]

\* terminate_test: the state dict after the handler
TerminatedState(st, reason) ==
    [st EXCEPT !.terminated = TRUE, !.termination_reason = <<reason>>]

----------------------------------------------------------------------------
(* Interview engine: generatequestion.py *)

SystemPrompt == [role |-> "system", content |-> "system_prompt"]
InitialPrompt == [role |-> "user", content |-> "initial_prompt"]
AssistantMessage(reply) == [role |-> "assistant", content |-> reply]

\* initialize_interview_session: the dict stored under the token.
\* final_summary is <<>> while the key is absent, <<summary>> once set.
InitialSession(cfg) ==
    [config |-> cfg,
     chat_history |-> <<SystemPrompt>>,
     actual_questions_asked |-> 0,
     actual_questions |-> <<>>,
     answers |-> <<>>,
     ratings |-> <<>>,
     is_complete |-> FALSE,
     current_state |-> "greeting",
     final_summary |-> <<>>]

\* re.search(r'Question <n>:(.*?)(?:\n|$)') and its fallback to the whole reply
ExtractQuestion(reply) ==
    IF reply = "labelled" THEN "question_text" ELSE reply

\* start_structured_interview, after the chat call returned `reply`
FirstQuestionAsked(s, reply) ==
    [s EXCEPT !.actual_questions = Append(@, ExtractQuestion(reply)),
              !.actual_questions_asked = 1,
              !.current_state = "questioning",
              !.chat_history = @ \o <<InitialPrompt, AssistantMessage(reply)>>]

\* the default of config.get is taken instead of the configured value
MaxQuestionsOf_default(s) == 5

\* max_questions = int(config.get("num_questions", 5))
MaxQuestionsOf(s) == s.config.num_questions

\* session["answers"].append(answer)
StoreAnswer(s, answer) == [s EXCEPT !.answers = Append(@, answer)]

\* a slip of the comparison: one question too many before finishing
LimitReached_strict(current_q_num, max_questions) == current_q_num > max_questions

\* if current_q_num >= max_questions: the finish branch
LimitReached(current_q_num, max_questions) == current_q_num >= max_questions

\* the counter is not written back
AdvanceCounter_skip(s) == s

\* next_q_num = current_q_num + 1; session["actual_questions_asked"] = next_q_num
AdvanceCounter(s) ==
    [s EXCEPT !.actual_questions_asked = s.actual_questions_asked + 1]

\* the counter is read again at the write: an increment of the stored value
WriteCounter_reread(s, current_q_num) == AdvanceCounter(s)

\* next_q_num = current_q_num + 1; session["actual_questions_asked"] = next_q_num,
\* with current_q_num the local read at line 142
WriteCounter(s, current_q_num) ==
    [s EXCEPT !.actual_questions_asked = current_q_num + 1]

\* the question is not kept for the log, only the transcript grows
NextQuestionAsked_unlogged(s, reply) ==
    [s EXCEPT !.chat_history = Append(@, AssistantMessage(reply))]

\* after the chat call of the next-question branch returned `reply`
NextQuestionAsked(s, reply) ==
    [s EXCEPT !.actual_questions = Append(@, ExtractQuestion(reply)),
              !.chat_history = Append(@, AssistantMessage(reply))]

\* the completion guard is missing
AlreadyComplete_never(s) == FALSE

\* if session["is_complete"]: return {"error": "Interview already complete"}
AlreadyComplete(s) == s.is_complete

\* json.loads(summary) and the JSONDecodeError fallback
SummaryData(reply) ==
    IF reply = "json"
    THEN [overall_feedback |-> "parsed_feedback", strengths |-> <<"s">>,
          areas_for_improvement |-> <<"a">>, average_rating |-> "4.2"]
    ELSE [overall_feedback |-> reply, strengths |-> <<>>,
          areas_for_improvement |-> <<>>, average_rating |-> "null"]

\* generate_final_summary: "Mark session as complete"
MarkComplete(s, reply) ==
    [s EXCEPT !.is_complete = TRUE,
              !.current_state = "complete",
              !.final_summary = <<SummaryData(reply)>>]

\* save_interview_log: session["actual_questions"][i] for i in
\* range(actual_questions_asked) raises IndexError on a short question list
LogRaises(s) == s.actual_questions_asked > Len(s.actual_questions)

\* save_interview_log: the "interview" array and the summary of the log file
InterviewLog(s) ==
    [interview |->
        [i \in 1..s.actual_questions_asked |->
            [question_number |-> i,
             question |-> s.actual_questions[i],
             answer |-> IF i <= Len(s.answers) THEN s.answers[i] ELSE "null",
             rating |-> IF i <= Len(s.ratings) THEN s.ratings[i] ELSE "null"]],
     summary |-> s.final_summary]

----------------------------------------------------------------------------
Init ==
    /\ uploads = EmptyDict
    /\ test_data_storage = EmptyDict
    /\ issued = {}
    /\ states = EmptyDict
    /\ violations = EmptyDict
    /\ interview_sessions = EmptyDict
    /\ interview_logs = EmptyDict
    /\ resp = NoResp
    /\ inflight = [w \in Threads |-> Idle]

----------------------------------------------------------------------------
(* Handlers of main.py *)

\* POST /admin/create-test.  `t` is the uuid4() drawn, `n` the numQuestions of
\* the request, `email_ok` whether send_test_email returned.
CreateTest(t, n, email_ok) ==
    /\ t \notin issued
    /\ issued' = issued \cup {t}
    /\ IF ~email_ok
       THEN /\ resp' = [ErrorReply("create_test", t, 201, "email") EXCEPT !.email_sent = FALSE]
            /\ UNCHANGED <<uploads, test_data_storage, states>>
       ELSE /\ uploads' = Put(uploads, t, NewConfig(t, n))
            /\ test_data_storage' = Put(test_data_storage, t, NewConfig(t, n))
            /\ states' = StatesAfterGet(t)
            /\ resp' = [Reply("create_test", t, 200) EXCEPT !.email_sent = TRUE]
    /\ UNCHANGED <<violations, engineVars>>
    /\ UNCHANGED inflight

\* POST /api/test/<token>/start-interview.  `gw` is what the chat call does.
StartInterview(t, gw) ==
    /\ UNCHANGED inflight
    /\ IF ~ConfigKnown(t)
       THEN /\ resp' = ErrorReply("start_interview", t, 404, "Invalid token")
            /\ UNCHANGED <<storeVars, trackerVars, engineVars>>
       ELSE /\ test_data_storage' = CacheAfterLoad(t)
            /\ states' = StatesAfterGet(t)
            /\ UNCHANGED <<uploads, issued, violations, interview_logs>>
            /\ IF StartRefused(StatesAfterGet(t)[t])
               THEN /\ resp' = ErrorReply("start_interview", t, 403, "Test terminated")
                    /\ UNCHANGED interview_sessions
               ELSE LET s0 == InitialSession(LoadedConfig(t)) IN
                    IF gw = "fail"
                    THEN /\ interview_sessions' = Put(interview_sessions, t, s0)
                         /\ resp' = ErrorReply("start_interview", t, 500, "UpstreamFailure")
                    ELSE /\ interview_sessions' =
                               Put(interview_sessions, t, FirstQuestionAsked(s0, gw))
                         /\ resp' = [Reply("start_interview", t, 200) EXCEPT
                                        !.question_number = 1,
                                        !.is_complete = FALSE,
                                        !.questions_remaining =
                                            LoadedConfig(t).num_questions - 1]

\* process_answer_and_get_next, once the session exists and is not complete
ProcessAnswer(t, answer, gw) ==
    LET s == interview_sessions[t]
        max_questions == MaxQuestionsOf(s)
        current_q_num == s.actual_questions_asked
        s1 == StoreAnswer(s, answer)
    IN
    IF LimitReached(current_q_num, max_questions)
    THEN \* generate_final_summary
         IF gw = "fail"
         THEN /\ interview_sessions' = Put(interview_sessions, t, s1)
              /\ resp' = ErrorReply("submit_text", t, 500, "UpstreamFailure")
              /\ UNCHANGED interview_logs
         ELSE LET s2 == MarkComplete(s1, gw) IN
              /\ interview_sessions' = Put(interview_sessions, t, s2)
              /\ IF LogRaises(s2)
                 THEN /\ resp' = ErrorReply("submit_text", t, 500, "IndexError")
                      /\ UNCHANGED interview_logs
                 ELSE /\ interview_logs' = Put(interview_logs, t, InterviewLog(s2))
                      /\ resp' = [Reply("submit_text", t, 200) EXCEPT
                                     !.is_complete = TRUE,
                                     !.question_number = s2.actual_questions_asked,
                                     !.questions_remaining = 0]
    ELSE LET s2 == AdvanceCounter(s1) IN
         /\ UNCHANGED interview_logs
         /\ IF gw = "fail"
            THEN /\ interview_sessions' = Put(interview_sessions, t, s2)
                 /\ resp' = ErrorReply("submit_text", t, 500, "UpstreamFailure")
            ELSE /\ interview_sessions' =
                       Put(interview_sessions, t, NextQuestionAsked(s2, gw))
                 /\ resp' = [Reply("submit_text", t, 200) EXCEPT
                                !.is_complete = FALSE,
                                !.question_number = s2.actual_questions_asked,
                                !.questions_remaining =
                                    max_questions - s2.actual_questions_asked]

\* POST /api/test/<token>/submit-text
SubmitText(t, answer, gw) ==
    /\ UNCHANGED <<storeVars, trackerVars>>
    /\ IF t \notin DOMAIN interview_sessions
       THEN /\ resp' = ErrorReply("submit_text", t, 404, "Interview not started")
            /\ UNCHANGED engineVars
       ELSE IF answer = ""
       THEN /\ resp' = ErrorReply("submit_text", t, 400, "No answer provided")
            /\ UNCHANGED engineVars
       ELSE IF AlreadyComplete(interview_sessions[t])
       THEN /\ resp' = ErrorReply("submit_text", t, 400, "Interview already complete")
            /\ UNCHANGED engineVars
       ELSE /\ Len(interview_sessions[t].answers) < MaxAnswers
            /\ ProcessAnswer(t, answer, gw)
    /\ UNCHANGED inflight

\* GET /api/test/<token>/progress
GetProgress(t) ==
    /\ UNCHANGED <<storeVars, trackerVars, engineVars>>
    /\ IF t \notin DOMAIN interview_sessions
       THEN resp' = ErrorReply("get_progress", t, 404, "Session not found")
       ELSE LET s == interview_sessions[t] IN
            resp' = [Reply("get_progress", t, 200) EXCEPT
                        !.question_number = s.actual_questions_asked,
                        !.total_questions = MaxQuestionsOf(s),
                        !.questions_remaining =
                            MaxQuestionsOf(s) - s.actual_questions_asked,
                        !.is_complete = s.is_complete,
                        !.state = s.current_state]
    /\ UNCHANGED inflight

\* POST /api/test/<token>/reset
ResetInterview(t) ==
    /\ interview_sessions' = Del(interview_sessions, t)
    /\ resp' = Reply("reset_interview", t, 200)
    /\ UNCHANGED <<storeVars, trackerVars, interview_logs>>
    /\ UNCHANGED inflight

\* GET /api/test/<token>/config
GetTestConfig(t) ==
    /\ test_data_storage' = CacheAfterLoad(t)
    /\ resp' = IF ConfigKnown(t)
               THEN [Reply("get_test_config", t, 200) EXCEPT
                        !.total_questions = LoadedConfig(t).num_questions]
               ELSE ErrorReply("get_test_config", t, 404, "Test config not found")
    /\ UNCHANGED <<uploads, issued, trackerVars, engineVars>>
    /\ UNCHANGED inflight

\* GET /api/test/<token>/validate/<stage>
ValidateStageAccess(t, stage) ==
    /\ UNCHANGED inflight
    /\ IF ~ConfigKnown(t)
       THEN /\ resp' = ErrorReply("validate_stage_access", t, 404, "Invalid token")
            /\ UNCHANGED <<storeVars, trackerVars, engineVars>>
       ELSE LET d == ValidateDecision(StatesAfterGet(t)[t], stage) IN
            /\ test_data_storage' = CacheAfterLoad(t)
            /\ states' = StatesAfterGet(t)
            /\ resp' = [Reply("validate_stage_access", t, 200) EXCEPT
                           !.allowed = d.allowed,
                           !.redirect = d.redirect,
                           !.redirect_stage = d.redirect_stage]
            /\ UNCHANGED <<uploads, issued, violations, engineVars>>

\* POST /api/test/<token>/update-stage
UpdateStage(t, stage, status) ==
    /\ states' = Put(states, t, UpdatedState(StatesAfterGet(t)[t], stage, status))
    /\ resp' = Reply("update_stage", t, 200)
    /\ UNCHANGED <<storeVars, violations, engineVars>>
    /\ UNCHANGED inflight

\* POST /api/test/<token>/violations
RecordViolation(t, type) ==
    LET log == IF t \in DOMAIN violations THEN violations[t] ELSE <<>>
        count == Len(log) + 1
    IN
    /\ Len(log) < MaxViolations
    /\ violations' = Put(violations, t, Append(log, type))
    /\ states' = IF MaxReached(count)
                 THEN Put(states, t, [StatesAfterGet(t)[t] EXCEPT !.terminated = TRUE])
                 ELSE states
    /\ resp' = [Reply("record_violation", t, 200) EXCEPT !.count = count]
    /\ UNCHANGED <<storeVars, engineVars>>
    /\ UNCHANGED inflight

\* POST /api/test/<token>/terminate
TerminateTest(t, reason) ==
    /\ states' = Put(states, t, TerminatedState(StatesAfterGet(t)[t], reason))
    /\ resp' = Reply("terminate_test", t, 200)
    /\ UNCHANGED <<storeVars, violations, engineVars>>
    /\ UNCHANGED inflight

\* The server process is stopped and started again: the dicts are empty, the
\* files remain.
Restart ==
    /\ test_data_storage' = EmptyDict
    /\ states' = EmptyDict
    /\ violations' = EmptyDict
    /\ interview_sessions' = EmptyDict
    /\ resp' = NoResp
    /\ inflight' = [w \in Threads |-> Idle]
    /\ UNCHANGED <<uploads, issued, interview_logs>>

----------------------------------------------------------------------------
(* The interview engine behind its HTTP handlers, requests served one at a time *)

EngineTokens == {"t1"}

Next ==
    \E t \in EngineTokens :
        \/ \E n \in NumQuestionsInputs, ok \in BOOLEAN : CreateTest(t, n, ok)
        \/ \E gw \in GatewayOutcomes : StartInterview(t, gw)
        \/ \E a \in AnswerInputs, gw \in GatewayOutcomes : SubmitText(t, a, gw)
        \/ GetProgress(t)
        \/ ResetInterview(t)

Spec == Init /\ [][Next]_vars

(* The same, with every Gateway call returning a reply *)

GatewayReplies == GatewayOutcomes \ {"fail"}

NextNoFail ==
    \E t \in EngineTokens :
        \/ \E n \in NumQuestionsInputs, ok \in BOOLEAN : CreateTest(t, n, ok)
        \/ \E gw \in GatewayReplies : StartInterview(t, gw)
        \/ \E a \in AnswerInputs, gw \in GatewayReplies : SubmitText(t, a, gw)
        \/ GetProgress(t)
        \/ ResetInterview(t)

SpecNoFail == Init /\ [][NextNoFail]_vars

(* The session state tracker and the violation log of one token *)

NextTracker ==
    \E t \in EngineTokens :
        \/ \E ok \in BOOLEAN : CreateTest(t, MaxQuestions, ok)
        \/ \E stage \in StageInputs, status \in StatusInputs : UpdateStage(t, stage, status)
        \/ \E stage \in StageInputs : ValidateStageAccess(t, stage)
        \/ \E type \in ViolationInputs : RecordViolation(t, type)
        \/ \E reason \in ReasonInputs : TerminateTest(t, reason)

SpecTracker == Init /\ [][NextTracker]_vars

(* Admission to the interview: start-interview against the token store and the
   terminated flag, set by terminate or by the violation limit *)

NextAdmission ==
    \E t \in EngineTokens :
        \/ \E n \in NumQuestionsInputs, ok \in BOOLEAN : CreateTest(t, n, ok)
        \/ \E gw \in GatewayOutcomes : StartInterview(t, gw)
        \/ \E type \in ViolationInputs : RecordViolation(t, type)
        \/ \E reason \in ReasonInputs : TerminateTest(t, reason)

SpecAdmission == Init /\ [][NextAdmission]_vars

(* Two tokens side by side.  One token runs every operation; the other one is
   created, started, answered once, moved to stage 2 and reported for one
   violation, so that it owns an entry in every dict while the first one works.
   Gateway calls return here; their failures are explored in Spec. *)

Actor == "t1"
Bystander == "t2"
IsolationOutcomes == {"plain"}

NextIsolation ==
    \/ \E t \in Tokens : CreateTest(t, MaxQuestions, TRUE)
    \/ \E t \in Tokens, gw \in IsolationOutcomes : StartInterview(t, gw)
    \/ \E gw \in IsolationOutcomes : SubmitText(Actor, "ans", gw)
    \/ /\ Bystander \in DOMAIN interview_sessions
       /\ interview_sessions[Bystander].answers = <<>>
       /\ SubmitText(Bystander, "ans", "plain")
    \/ \E t \in Tokens : ResetInterview(t)
    \/ \E stage \in 1..LastStage : UpdateStage(Actor, stage, "complete")
    \/ UpdateStage(Bystander, 1, "complete")
    \/ \E type \in ViolationInputs : RecordViolation(Actor, type)
    \/ /\ Bystander \notin DOMAIN violations
       /\ \E type \in ViolationInputs : RecordViolation(Bystander, type)
    \/ TerminateTest(Actor, "r1")

SpecIsolation == Init /\ [][NextIsolation]_vars

----------------------------------------------------------------------------
(* submit-text served by worker threads.  The development server hands every
   request to a thread of its own, and the interpreter may switch threads
   between any two statements, so the handler is taken statement by statement:
   the guards and the read of the counter, the append of the answer, the
   branch with the write of the counter, and the return of the chat call. *)

AllIdle == \A w \in Threads : inflight[w] = Idle

\* submit_text_answer up to its call, then process_answer_and_get_next up to
\* current_q_num = session["actual_questions_asked"]
SubmitBegin(w, t, answer) ==
    /\ inflight[w] = Idle
    /\ UNCHANGED <<storeVars, trackerVars, engineVars>>
    /\ IF t \notin DOMAIN interview_sessions
       THEN /\ resp' = ErrorReply("submit_text", t, 404, "Interview not started")
            /\ UNCHANGED inflight
       ELSE IF answer = ""
       THEN /\ resp' = ErrorReply("submit_text", t, 400, "No answer provided")
            /\ UNCHANGED inflight
       ELSE IF AlreadyComplete(interview_sessions[t])
       THEN /\ resp' = ErrorReply("submit_text", t, 400, "Interview already complete")
            /\ UNCHANGED inflight
       ELSE /\ Len(interview_sessions[t].answers) < MaxAnswers
            /\ inflight' = [inflight EXCEPT ![w] =
                              [pc |-> "read", token |-> t, answer |-> answer,
                               current_q_num |->
                                   interview_sessions[t].actual_questions_asked]]
            /\ UNCHANGED resp

\* session["answers"].append(answer)
SubmitStore(w) ==
    LET r == inflight[w] IN
    /\ r.pc = "read"
    /\ interview_sessions' =
           Put(interview_sessions, r.token,
               StoreAnswer(interview_sessions[r.token], r.answer))
    /\ inflight' = [inflight EXCEPT ![w].pc = "stored"]
    /\ UNCHANGED <<storeVars, trackerVars, interview_logs, resp>>

\* if current_q_num >= max_questions: generate_final_summary up to its chat
\* call; otherwise the write of the counter, up to the chat call
SubmitBranch(w) ==
    LET r == inflight[w]
        s == interview_sessions[r.token]
    IN
    /\ r.pc = "stored"
    /\ IF LimitReached(r.current_q_num, MaxQuestionsOf(s))
       THEN /\ inflight' = [inflight EXCEPT ![w].pc = "summary"]
            /\ UNCHANGED interview_sessions
       ELSE /\ inflight' = [inflight EXCEPT ![w].pc = "next"]
            /\ interview_sessions' =
                   Put(interview_sessions, r.token, WriteCounter(s, r.current_q_num))
    /\ UNCHANGED <<storeVars, trackerVars, interview_logs, resp>>

\* the chat call of the thread ends with `gw`; the rest of the handler
SubmitReturn(w, gw) ==
    LET r == inflight[w]
        t == r.token
        s == interview_sessions[t]
        next_q_num == r.current_q_num + 1
    IN
    /\ r.pc \in {"next", "summary"}
    /\ inflight' = [inflight EXCEPT ![w] = Idle]
    /\ UNCHANGED <<storeVars, trackerVars>>
    /\ IF gw = "fail"
       THEN /\ resp' = ErrorReply("submit_text", t, 500, "UpstreamFailure")
            /\ UNCHANGED engineVars
       ELSE IF r.pc = "next"
       THEN /\ interview_sessions' =
                  Put(interview_sessions, t, NextQuestionAsked(s, gw))
            /\ resp' = [Reply("submit_text", t, 200) EXCEPT
                           !.is_complete = FALSE,
                           !.question_number = next_q_num,
                           !.questions_remaining = MaxQuestionsOf(s) - next_q_num]
            /\ UNCHANGED interview_logs
       ELSE LET s2 == MarkComplete(s, gw) IN
            /\ interview_sessions' = Put(interview_sessions, t, s2)
            /\ IF LogRaises(s2)
               THEN /\ resp' = ErrorReply("submit_text", t, 500, "IndexError")
                    /\ UNCHANGED interview_logs
               ELSE /\ interview_logs' = Put(interview_logs, t, InterviewLog(s2))
                    /\ resp' = [Reply("submit_text", t, 200) EXCEPT
                                   !.is_complete = TRUE,
                                   !.question_number = s2.actual_questions_asked,
                                   !.questions_remaining = 0]

(* Overlapping submit-text requests on one token.  The interview is created,
   started and reset while no request is in hand; chat calls return. *)

RaceOutcomes == {"plain"}

NextRace ==
    \E t \in EngineTokens :
        \/ \E n \in NumQuestionsInputs : CreateTest(t, n, TRUE)
        \/ /\ AllIdle
           /\ \E gw \in RaceOutcomes : StartInterview(t, gw)
        \/ /\ AllIdle
           /\ ResetInterview(t)
        \/ \E w \in Threads : SubmitBegin(w, t, "ans")
        \/ \E w \in Threads : SubmitStore(w)
        \/ \E w \in Threads : SubmitBranch(w)
        \/ \E w \in Threads, gw \in RaceOutcomes : SubmitReturn(w, gw)

SpecRace == Init /\ [][NextRace]_vars

(* Overlapping submit-text requests that give way to each other at their chat
   calls only: a request runs from its first statement to its chat call in one
   step and from the return of the call to its end in another.  The interview
   is created, started and reset while no request is in hand. *)

\* submit_text_answer and process_answer_and_get_next up to the chat call of
\* the branch taken (generate_final_summary's, or the next question's)
SubmitToCall(w, t, answer) ==
    /\ inflight[w] = Idle
    /\ UNCHANGED <<storeVars, trackerVars, interview_logs>>
    /\ IF t \notin DOMAIN interview_sessions
       THEN /\ resp' = ErrorReply("submit_text", t, 404, "Interview not started")
            /\ UNCHANGED <<interview_sessions, inflight>>
       ELSE IF answer = ""
       THEN /\ resp' = ErrorReply("submit_text", t, 400, "No answer provided")
            /\ UNCHANGED <<interview_sessions, inflight>>
       ELSE IF AlreadyComplete(interview_sessions[t])
       THEN /\ resp' = ErrorReply("submit_text", t, 400, "Interview already complete")
            /\ UNCHANGED <<interview_sessions, inflight>>
       ELSE LET s == interview_sessions[t]
                current_q_num == s.actual_questions_asked
                s1 == StoreAnswer(s, answer)
                finish == LimitReached(current_q_num, MaxQuestionsOf(s))
            IN
            /\ Len(s.answers) < MaxAnswers
            /\ interview_sessions' =
                   Put(interview_sessions, t,
                       IF finish THEN s1 ELSE WriteCounter(s1, current_q_num))
            /\ inflight' = [inflight EXCEPT ![w] =
                              [pc |-> IF finish THEN "summary" ELSE "next",
                               token |-> t, answer |-> answer,
                               current_q_num |-> current_q_num]]
            /\ UNCHANGED resp

NextOverlap ==
    \E t \in EngineTokens :
        \/ \E n \in NumQuestionsInputs : CreateTest(t, n, TRUE)
        \/ /\ AllIdle
           /\ \E gw \in GatewayOutcomes : StartInterview(t, gw)
        \/ /\ AllIdle
           /\ ResetInterview(t)
        \/ \E w \in Threads : SubmitToCall(w, t, "ans")
        \/ \E w \in Threads, gw \in GatewayOutcomes : SubmitReturn(w, gw)

SpecOverlap == Init /\ [][NextOverlap]_vars

(* The session state of one token under every handler that reaches it or the
   interview of the same token.  Chat calls return here. *)

FlagOutcomes == {"plain"}

NextFlags ==
    \E t \in EngineTokens :
        \/ CreateTest(t, MaxQuestions, TRUE)
        \/ \E stage \in StageInputs, status \in StatusInputs : UpdateStage(t, stage, status)
        \/ \E stage \in StageInputs : ValidateStageAccess(t, stage)
        \/ \E type \in ViolationInputs : RecordViolation(t, type)
        \/ \E reason \in ReasonInputs : TerminateTest(t, reason)
        \/ \E gw \in FlagOutcomes : StartInterview(t, gw)
        \/ \E gw \in FlagOutcomes : SubmitText(t, "ans", gw)
        \/ ResetInterview(t)

SpecFlags == Init /\ [][NextFlags]_vars

(* The token store across restarts of the server, two tokens *)

NextStore ==
    \/ \E t \in Tokens :
        \/ \E n \in NumQuestionsInputs, ok \in BOOLEAN : CreateTest(t, n, ok)
        \/ GetTestConfig(t)
        \/ \E gw \in GatewayOutcomes : StartInterview(t, gw)
    \/ Restart

SpecStore == Init /\ [][NextStore]_vars

----------------------------------------------------------------------------
(* Properties *)

Asked(t) == interview_sessions[t].actual_questions_asked
Configured(t) == interview_sessions[t].config.num_questions
ViolationCount(t) == IF t \in DOMAIN violations THEN Len(violations[t]) ELSE 0
IsTerminated(t) == t \in DOMAIN states /\ states[t].terminated
TerminateCalled(t) == t \in DOMAIN states /\ states[t].termination_reason # <<>>

\* C1: in every reachable state of an Interview Session, whatever the Gateway
\* calls did, len(answers) <= len(actual_questions) <= num_questions.  Stated
\* here for sessions configured with at least one question.
C1_SessionBounds ==
    \A t \in DOMAIN interview_sessions :
        LET s == interview_sessions[t] IN
        Configured(t) >= 1 =>
            /\ Len(s.answers) <= Len(s.actual_questions)
            /\ Len(s.actual_questions) <= Configured(t)

\* C2: for a session with num_questions >= 1, a step that is neither a start
\* nor a reset leaves actual_questions_asked unchanged or raises it by exactly
\* 1, the latter only in a submit-text that stored its answer in a session
\* that was not complete and had asked fewer than num_questions questions;
\* and actual_questions_asked never exceeds num_questions.
C2_CounterSteps ==
    [][\A t \in Tokens :
        (t \in DOMAIN interview_sessions' /\ interview_sessions'[t].config.num_questions >= 1) =>
            /\ interview_sessions'[t].actual_questions_asked
                  <= interview_sessions'[t].config.num_questions
            /\ (t \in DOMAIN interview_sessions
                 /\ resp'.op \notin {"start_interview", "reset_interview"}) =>
                  LET before == interview_sessions[t]
                      after == interview_sessions'[t]
                  IN
                  /\ \/ after.actual_questions_asked = before.actual_questions_asked
                     \/ after.actual_questions_asked = before.actual_questions_asked + 1
                  /\ after.actual_questions_asked = before.actual_questions_asked + 1 =>
                        /\ resp'.op = "submit_text"
                        /\ Len(after.answers) = Len(before.answers) + 1
                        /\ ~before.is_complete
                        /\ ~after.is_complete
                        /\ before.actual_questions_asked < Configured(t)
    ]_vars

\* C2 witness: a second question has been asked after an answer was taken
C2_Witness ==
    \E t \in DOMAIN interview_sessions :
        /\ Configured(t) >= 2
        /\ Asked(t) = Configured(t)
        /\ resp.op = "submit_text" /\ resp.code = 200 /\ ~resp.is_complete

\* C3: once is_complete holds, every submitAnswer on the token is rejected
\* with "Interview already complete" and changes neither the session (answers,
\* questions, counter, transcript, summary) nor the log.
C3_RejectedOnceComplete ==
    [][\A t \in Tokens, gw \in GatewayOutcomes :
        (/\ t \in DOMAIN interview_sessions
         /\ interview_sessions[t].is_complete
         /\ SubmitText(t, "ans", gw)) =>
            /\ resp' = ErrorReply("submit_text", t, 400, "Interview already complete")
            /\ interview_sessions' = interview_sessions
            /\ interview_logs' = interview_logs
    ]_vars

\* C3 witness: a complete session has just rejected an answer
C3_Witness ==
    \E t \in DOMAIN interview_sessions :
        /\ interview_sessions[t].is_complete
        /\ resp = ErrorReply("submit_text", t, 400, "Interview already complete")

\* C4: with every Gateway call returning, a session with num_questions = N >= 1
\* is complete exactly when N answers have been submitted since its start; the
\* k-th submitAnswer, k < N, answers is_complete = false, question_number k+1,
\* questions_remaining N-(k+1); the N-th answers is_complete = true, with the
\* summary stored and the log written.  (k is the number of stored answers.)
C4_CompletesOnNth ==
    \A t \in DOMAIN interview_sessions :
        LET s == interview_sessions[t]
            N == Configured(t)
            k == Len(s.answers)
        IN
        N >= 1 =>
            /\ k <= N
            /\ s.is_complete <=> (k = N)
            /\ (resp.op = "submit_text" /\ resp.token = t /\ resp.error = "") =>
                  /\ resp.code = 200
                  /\ k >= 1
                  /\ IF k < N
                     THEN /\ ~resp.is_complete
                          /\ resp.question_number = k + 1
                          /\ resp.questions_remaining = N - (k + 1)
                     ELSE /\ resp.is_complete
                          /\ Len(s.final_summary) = 1
                          /\ t \in DOMAIN interview_logs
            /\ (resp.op = "submit_text" /\ resp.token = t) => resp.code # 500

\* C4 witness: the second of two answers has completed the session
C4_Witness ==
    \E t \in DOMAIN interview_sessions :
        /\ Configured(t) = 2
        /\ Len(interview_sessions[t].answers) = 2
        /\ interview_sessions[t].is_complete
        /\ resp.op = "submit_text" /\ resp.code = 200 /\ resp.is_complete

\* C5: whatever update-stage calls are made, current_stage never decreases and
\* each call changes it by 0 or by exactly +1.
C5_StageStepsByOne ==
    [][\A t \in Tokens :
        (t \in DOMAIN states /\ t \in DOMAIN states') =>
            \/ states'[t].current_stage = states[t].current_stage
            \/ states'[t].current_stage = states[t].current_stage + 1
    ]_vars

\* C6: validateAccess on a known token answers, in this order: redirect
\* "terminated" if terminated; else redirect "feedback" if completed; else
\* redirect to current_stage if the requested stage differs; else allowed.  So
\* it allows only the current stage of a session neither terminated nor
\* completed, and current_stage changes only in an update-stage call.
C6_ValidatePriority ==
    [][/\ \A t \in Tokens, stage \in StageInputs :
            (ConfigKnown(t) /\ ValidateStageAccess(t, stage)) =>
                LET st == states'[t] IN
                /\ resp'.code = 200
                /\ IF st.terminated
                   THEN ~resp'.allowed /\ resp'.redirect = "terminated"
                   ELSE IF st.completed
                   THEN ~resp'.allowed /\ resp'.redirect = "feedback"
                   ELSE IF stage # st.current_stage
                   THEN /\ ~resp'.allowed
                        /\ resp'.redirect = "stage"
                        /\ resp'.redirect_stage = st.current_stage
                   ELSE resp'.allowed /\ resp'.redirect = ""
                /\ resp'.allowed <=>
                      (stage = st.current_stage /\ ~st.terminated /\ ~st.completed)
       /\ \A t \in Tokens :
            (/\ t \in DOMAIN states
             /\ t \in DOMAIN states'
             /\ states'[t].current_stage # states[t].current_stage) =>
                resp'.op = "update_stage"
    ]_vars

\* C6 witness: stage 2 has been allowed after stage 1 was completed
C6_Witness ==
    \E t \in DOMAIN states :
        /\ states[t].current_stage = 2
        /\ resp.op = "validate_stage_access" /\ resp.token = t /\ resp.allowed

\* C7: for a token on which terminate was never called, terminated holds
\* exactly when at least 10 violations are recorded; each record-violation
\* call appends one entry and returns the new count.
C7_TenthViolationTerminates ==
    [][\A t \in Tokens :
        /\ ~TerminateCalled(t)' =>
              (IsTerminated(t)' <=> (ViolationCount(t)' >= 10))
        /\ \A type \in ViolationInputs :
              RecordViolation(t, type) =>
                  /\ violations'[t] =
                        Append(IF t \in DOMAIN violations THEN violations[t] ELSE <<>>, type)
                  /\ resp'.count = ViolationCount(t) + 1
    ]_vars

\* C7 witness: the tenth violation has just terminated the session
C7_Witness ==
    \E t \in Tokens :
        /\ ViolationCount(t) = 10
        /\ IsTerminated(t)
        /\ ~TerminateCalled(t)
        /\ resp.op = "record_violation" /\ resp.count = 10

\* C8: whenever create-test has returned a token, with the email sent or not,
\* the configuration of that token is on disk and in the cache.
C8_ReturnedTokenIsPersisted ==
    resp.op = "create_test" =>
        /\ resp.token \in DOMAIN uploads
        /\ resp.token \in DOMAIN test_data_storage

\* C9: a submitAnswer whose Gateway call fails leaves the Interview Session
\* exactly as it was.  Stated here for sessions configured with at least one
\* question.
C9_FailedCallChangesNothing ==
    [][\A t \in Tokens :
        (/\ t \in DOMAIN interview_sessions
         /\ Configured(t) >= 1
         /\ resp'.op = "submit_text"
         /\ resp'.token = t
         /\ resp'.error = "UpstreamFailure") =>
            interview_sessions'[t] = interview_sessions[t]
    ]_vars

\* C10: whenever finish completes a session, building the log does not raise
\* and the log written has exactly actual_questions_asked interview entries.
C10_LogHasAskedEntries ==
    [][\A t \in Tokens :
        (/\ t \in DOMAIN interview_sessions
         /\ ~interview_sessions[t].is_complete
         /\ t \in DOMAIN interview_sessions'
         /\ interview_sessions'[t].is_complete) =>
            /\ resp'.code = 200
            /\ t \in DOMAIN interview_logs'
            /\ Len(interview_logs'[t].interview) =
                  interview_sessions'[t].actual_questions_asked
    ]_vars

\* C11: if the reply to the finish call is not valid JSON, finish does not
\* raise: it stores the raw text as overall_feedback with empty lists and a null
\* rating, sets is_complete and current_state = "complete", and returns
\* is_complete = true.  Stated here for sessions configured with at least one
\* question.
C11_FallbackSummaryCompletes ==
    [][\A t \in Tokens, gw \in {"labelled", "plain"} :
        (/\ t \in DOMAIN interview_sessions
         /\ ~interview_sessions[t].is_complete
         /\ Configured(t) >= 1
         /\ Asked(t) >= Configured(t)
         /\ SubmitText(t, "ans", gw)) =>
            /\ interview_sessions'[t].is_complete
            /\ interview_sessions'[t].current_state = "complete"
            /\ interview_sessions'[t].final_summary =
                  <<[overall_feedback |-> gw, strengths |-> <<>>,
                     areas_for_improvement |-> <<>>, average_rating |-> "null"]>>
            /\ resp'.code = 200
            /\ resp'.is_complete
    ]_vars

\* C12: if the Gateway call of finish itself fails, no error is surfaced:
\* the session is completed with a summary stored and the call returns a
\* normal completion result.
C12_SummaryFailureSwallowed ==
    [][\A t \in Tokens :
        (/\ t \in DOMAIN interview_sessions
         /\ ~interview_sessions[t].is_complete
         /\ Configured(t) >= 1
         /\ Asked(t) >= Configured(t)
         /\ SubmitText(t, "ans", "fail")) =>
            /\ interview_sessions'[t].is_complete
            /\ Len(interview_sessions'[t].final_summary) = 1
            /\ resp'.code = 200
            /\ resp'.is_complete
    ]_vars

\* C13: for one token the workflow state only moves forward along
\* greeting -> questioning -> complete: no start or submitAnswer call takes an
\* existing session back to an earlier state (a reset removes the session).
StateRank(state) ==
    CASE state = "greeting" -> 0
      [] state = "questioning" -> 1
      [] state = "complete" -> 2

C13_WorkflowOnlyForward ==
    [][\A t \in Tokens :
        (t \in DOMAIN interview_sessions /\ t \in DOMAIN interview_sessions') =>
            StateRank(interview_sessions'[t].current_state)
                >= StateRank(interview_sessions[t].current_state)
    ]_vars

\* C14: reset removes the Interview Session; while it is absent submitAnswer
\* and progress answer 404 and change nothing; a start that then succeeds
\* yields a session with actual_questions_asked = 1, one stored question, no
\* answers, is_complete = false and no final summary, whatever was there before.
C14_ResetThenStartIsFresh ==
    [][\A t \in Tokens :
        /\ ResetInterview(t) => t \notin DOMAIN interview_sessions'
        /\ t \notin DOMAIN interview_sessions =>
              /\ \A a \in AnswerInputs, gw \in GatewayOutcomes :
                    SubmitText(t, a, gw) =>
                        /\ resp'.code = 404
                        /\ UNCHANGED engineVars
              /\ GetProgress(t) => (resp'.code = 404 /\ UNCHANGED engineVars)
              /\ \A gw \in GatewayOutcomes :
                    (StartInterview(t, gw) /\ resp'.code = 200) =>
                        LET s == interview_sessions'[t] IN
                        /\ s.actual_questions_asked = 1
                        /\ Len(s.actual_questions) = 1
                        /\ s.answers = <<>>
                        /\ ~s.is_complete
                        /\ s.final_summary = <<>>
    ]_vars

\* C14 witness: a fresh session stands where an interview was finished before
C14_Witness ==
    \E t \in DOMAIN interview_sessions :
        /\ t \in DOMAIN interview_logs
        /\ Configured(t) >= 1
        /\ Asked(t) = 1
        /\ interview_sessions[t].answers = <<>>
        /\ ~interview_sessions[t].is_complete
        /\ resp.op = "start_interview" /\ resp.code = 200

\* C15: start-interview answers 404 when the token has no Test Configuration
\* and 403 when its Session State is terminated, by terminate or by the
\* violation limit; in both cases the Interview Sessions and logs are left as
\* they were and the answer does not depend on the Gateway (a failing Gateway
\* still gives 404 / 403, never 500).
C15_StartRefusals ==
    [][\A t \in Tokens, gw \in GatewayOutcomes :
        StartInterview(t, gw) =>
            /\ ~ConfigKnown(t) =>
                  /\ resp' = ErrorReply("start_interview", t, 404, "Invalid token")
                  /\ UNCHANGED engineVars
            /\ (ConfigKnown(t) /\ IsTerminated(t)) =>
                  /\ resp' = ErrorReply("start_interview", t, 403, "Test terminated")
                  /\ UNCHANGED engineVars
    ]_vars

\* C15 witness: a started interview, then ten violations, then a start refused
C15_Witness ==
    \E t \in DOMAIN interview_sessions :
        /\ IsTerminated(t)
        /\ ~TerminateCalled(t)
        /\ ViolationCount(t) >= 10
        /\ resp = ErrorReply("start_interview", t, 403, "Test terminated")

\* The Session State a handler works on: the stored one, or the one
\* get_or_create_session_state makes on first access
StateBefore(t) == IF t \in DOMAIN states THEN states[t] ELSE FreshState

\* C16: updateStage(token, stage, status) with stage in {1,2,3} sets
\* stages[stage] to status; with status "complete" it sets current_stage to
\* stage+1 if stage < 3 and completed to true, current_stage untouched, if
\* stage = 3; otherwise current_stage and completed are unchanged; for a stage
\* outside {1,2,3} the whole Session State is unchanged.
C16_UpdateStageEffect ==
    [][\A t \in Tokens, stage \in StageInputs, status \in StatusInputs :
        UpdateStage(t, stage, status) =>
            LET before == StateBefore(t)
                after == states'[t]
            IN
            /\ stage \in {1, 2, 3} =>
                  /\ after.stages[stage] = status
                  /\ \A o \in {1, 2, 3} \ {stage} : after.stages[o] = before.stages[o]
            /\ (stage \in {1, 2} /\ status = "complete") =>
                  /\ after.current_stage = stage + 1
                  /\ after.completed = before.completed
            /\ (stage = 3 /\ status = "complete") =>
                  /\ after.completed
                  /\ after.current_stage = before.current_stage
            /\ (stage \notin {1, 2, 3} \/ status # "complete") =>
                  /\ after.current_stage = before.current_stage
                  /\ after.completed = before.completed
            /\ stage \notin {1, 2, 3} => after = before
            /\ after.terminated = before.terminated
            /\ after.termination_reason = before.termination_reason
    ]_vars

\* C16 witness: stage 3 has been completed
C16_Witness ==
    \E t \in DOMAIN states :
        /\ states[t].completed
        /\ states[t].stages[3] = "complete"
        /\ states[t].current_stage = 3
        /\ resp.op = "update_stage" /\ resp.token = t

\* C17: terminate(token, reason) sets terminated and stores the reason
\* whatever the state was; a later terminate keeps terminated and replaces the
\* reason; nothing else in the Session State, and no violation, changes.
C17_TerminateOverwrites ==
    [][\A t \in Tokens, reason \in ReasonInputs :
        TerminateTest(t, reason) =>
            /\ states'[t] = [StateBefore(t) EXCEPT !.terminated = TRUE,
                                                    !.termination_reason = <<reason>>]
            /\ \A u \in DOMAIN states \ {t} : states'[u] = states[u]
            /\ violations' = violations
    ]_vars

\* C17 witness: a completed test has been terminated with the second reason
C17_Witness ==
    \E t \in DOMAIN states :
        /\ states[t].completed
        /\ states[t].terminated
        /\ states[t].termination_reason = <<"r2">>
        /\ resp.op = "terminate_test" /\ resp.token = t

\* C18: progress(token) changes no state; while the session exists it reports
\* total_questions = the configured num_questions, current_question =
\* actual_questions_asked and questions_remaining = total - current, which is
\* not negative when num_questions >= 1.
C18_ProgressIsPureAndExact ==
    [][\A t \in Tokens :
        GetProgress(t) =>
            /\ UNCHANGED <<storeVars, trackerVars, engineVars>>
            /\ t \in DOMAIN interview_sessions =>
                  /\ resp'.code = 200
                  /\ resp'.total_questions = test_data_storage[t].num_questions
                  /\ resp'.question_number = Asked(t)
                  /\ resp'.questions_remaining =
                        resp'.total_questions - resp'.question_number
                  /\ resp'.is_complete = interview_sessions[t].is_complete
                  /\ resp'.state = interview_sessions[t].current_state
                  /\ test_data_storage[t].num_questions >= 1 =>
                        resp'.questions_remaining >= 0
    ]_vars

\* C18 witness: progress of a finished two-question interview
C18_Witness ==
    /\ resp.op = "get_progress" /\ resp.code = 200
    /\ resp.total_questions = 2
    /\ resp.question_number = 2
    /\ resp.questions_remaining = 0
    /\ resp.is_complete

\* What a token owns: its entry, if any, in each dict and directory
Entry(d, u) == IF u \in DOMAIN d THEN <<d[u]>> ELSE <<>>

OwnedBy(u) ==
    <<Entry(uploads, u), Entry(test_data_storage, u), Entry(states, u),
      Entry(violations, u), Entry(interview_sessions, u), Entry(interview_logs, u)>>

\* C19: start, submitAnswer, reset, update-stage, record-violation and
\* terminate on one token, interleaved in any order with operations on another
\* token, never change the other token's Test Configuration, Session State,
\* Violation Log, Interview Session or interview log.
C19_TokensAreIsolated ==
    [][\A t \in Tokens, u \in Tokens :
        (/\ t # u
         /\ resp'.token = t
         /\ resp'.op \in {"start_interview", "submit_text", "reset_interview",
                           "update_stage", "record_violation", "terminate_test"}) =>
            OwnedBy(u)' = OwnedBy(u)
    ]_vars

\* C19 witness: the first token was terminated by its tenth violation after
\* finishing its interview, while the other one keeps its own session, stage and
\* single violation
C19_Witness ==
    /\ Bystander \in DOMAIN interview_sessions
    /\ interview_sessions[Bystander].answers = <<"ans">>
    /\ ViolationCount(Bystander) = 1
    /\ Bystander \in DOMAIN states
    /\ states[Bystander].current_stage = 2
    /\ ~states[Bystander].terminated
    /\ ViolationCount(Actor) >= 10
    /\ IsTerminated(Actor)
    /\ Actor \in DOMAIN interview_logs
    /\ resp.token = Actor
    /\ resp.op = "record_violation"

\* C20: two overlapping submit-text calls on one token can both read the same
\* actual_questions_asked and both append their answer.  While both wait for
\* their chat call the counter stands one above the value they read although
\* two answers were stored for it; once the requests are over, the unfinished
\* session holds one question per answer beyond the first, which the counter
\* no longer matches.
C20_OverlappingSubmitsLoseACount ==
    /\ \A a \in Threads, b \in Threads :
          (/\ a # b
           /\ inflight[a].pc = "next"
           /\ inflight[b].pc = "next"
           /\ inflight[a].token = inflight[b].token
           /\ inflight[a].current_q_num = inflight[b].current_q_num) =>
              LET s == interview_sessions[inflight[a].token] IN
              /\ s.actual_questions_asked = inflight[a].current_q_num + 1
              /\ Len(s.answers) >= inflight[a].current_q_num + 1
    /\ \A t \in EngineTokens :
          (/\ AllIdle
           /\ t \in DOMAIN interview_sessions
           /\ ~interview_sessions[t].is_complete) =>
              /\ Len(interview_sessions[t].actual_questions) =
                     Len(interview_sessions[t].answers) + 1
              /\ Asked(t) <= Len(interview_sessions[t].actual_questions)

\* C20 witness: after two overlapping answers to question 1 the session is at
\* rest with counter 2, two answers and three questions
C20_Witness ==
    /\ AllIdle
    /\ "t1" \in DOMAIN interview_sessions
    /\ ~interview_sessions["t1"].is_complete
    /\ Asked("t1") = 2
    /\ Len(interview_sessions["t1"].answers) = 2
    /\ Len(interview_sessions["t1"].actual_questions) = 3
    /\ resp.op = "submit_text"
    /\ resp.question_number = 2

\* C21: with overlapping requests that give way at chat calls only, once
\* is_complete is true the questions, the answers, the counter and the
\* transcript of the session stay as they are for as long as the session is
\* complete, also when another submit-text was waiting for its chat call at
\* the moment of completion.
C21_CompleteSessionIsFrozen ==
    [][\A t \in EngineTokens :
        (/\ t \in DOMAIN interview_sessions
         /\ interview_sessions[t].is_complete
         /\ t \in DOMAIN interview_sessions'
         /\ interview_sessions'[t].is_complete) =>
            /\ interview_sessions'[t].actual_questions =
                   interview_sessions[t].actual_questions
            /\ interview_sessions'[t].answers = interview_sessions[t].answers
            /\ interview_sessions'[t].actual_questions_asked =
                   interview_sessions[t].actual_questions_asked
            /\ interview_sessions'[t].chat_history =
                   interview_sessions[t].chat_history
    ]_vars

\* C22: the transcript only grows, it holds three entries once start has
\* finished, and every successful submit-text that is not the final one adds
\* two entries to it, the instruction and the reply of the model.
C22_TranscriptGrowsByTwo ==
    [][\A t \in EngineTokens, gw \in GatewayReplies :
        /\ (StartInterview(t, gw) /\ resp'.code = 200) =>
               Len(interview_sessions'[t].chat_history) = 3
        /\ (/\ t \in DOMAIN interview_sessions
            /\ SubmitText(t, "ans", gw)
            /\ resp'.code = 200
            /\ ~resp'.is_complete) =>
               LET before == interview_sessions[t].chat_history
                   after == interview_sessions'[t].chat_history
               IN
               /\ SubSeq(after, 1, Len(before)) = before
               /\ Len(after) = Len(before) + 2
               /\ after[Len(after)] = AssistantMessage(gw)
    ]_vars

\* C23: with requests served one at a time and every Gateway call returning, a
\* started session with num_questions >= 1 holds as many questions as its
\* counter says and one answer less while it is not complete, and exactly
\* num_questions questions, answers and counted questions once it is complete.
C23_CountsAgree ==
    \A t \in DOMAIN interview_sessions :
        LET s == interview_sessions[t] IN
        (Configured(t) >= 1 /\ s.current_state # "greeting") =>
            /\ Asked(t) >= 1
            /\ IF ~s.is_complete
               THEN /\ Len(s.actual_questions) = Asked(t)
                    /\ Len(s.answers) = Asked(t) - 1
               ELSE /\ Len(s.answers) = Configured(t)
                    /\ Len(s.actual_questions) = Configured(t)
                    /\ Asked(t) = Configured(t)

\* C23 witness: a session of the largest size, complete, as get-progress sees it
C23_Witness ==
    /\ "t1" \in DOMAIN interview_sessions
    /\ Configured("t1") = MaxQuestions
    /\ interview_sessions["t1"].is_complete
    /\ Len(interview_sessions["t1"].answers) = MaxQuestions
    /\ resp.op = "get_progress"
    /\ resp.is_complete

\* C24: the Session State entry of a token is never deleted, and its flags
\* terminated and completed, once true, stay true under update-stage,
\* record-violation, terminate, validate, start-interview, submit-text and
\* reset.
C24_FlagsAreMonotonic ==
    [][\A t \in DOMAIN states :
        /\ t \in DOMAIN states'
        /\ states[t].terminated => states'[t].terminated
        /\ states[t].completed => states'[t].completed
    ]_vars

\* C24 witness: a completed and terminated token after stage 3 was reported
\* incomplete again
C24_Witness ==
    /\ "t1" \in DOMAIN states
    /\ states["t1"].completed
    /\ states["t1"].terminated
    /\ states["t1"].stages[LastStage] = "incomplete"
    /\ "t1" \in DOMAIN interview_sessions
    /\ resp.op = "update_stage"

\* C25: once the Session State of a token is terminated, no submit-text call
\* for it is accepted any more, and the counter, the answers and is_complete
\* of its Interview Session stay as they are for as long as the session exists.
C25_TerminatedMakesNoProgress ==
    [][\A t \in EngineTokens :
        (/\ IsTerminated(t)
         /\ t \in DOMAIN interview_sessions
         /\ t \in DOMAIN interview_sessions') =>
            /\ interview_sessions'[t].actual_questions_asked =
                   interview_sessions[t].actual_questions_asked
            /\ interview_sessions'[t].answers = interview_sessions[t].answers
            /\ interview_sessions'[t].is_complete =
                   interview_sessions[t].is_complete
            /\ (\E gw \in FlagOutcomes : SubmitText(t, "ans", gw)) =>
                   resp'.code # 200
    ]_vars

====
